---------------------------- MODULE Spec2Model ----------------------------
(***************************************************************************)
(* A model of reccmp's stack comparison tool, src/reccmp/tools/stackcmp.py *)
(*                                                                         *)
(* Text is modelled as sequences of one-character strings, so that the    *)
(* regular expression STACK_ENTRY_REGEX, int(.., 16), the format           *)
(* specification "#04x" and bytes.fromhex are computed character by        *)
(* character, as the code computes them.                                   *)
(*                                                                         *)
(* and of its module ordering tool, src/reccmp/tools/roadmap.py.           *)
(*                                                                         *)
(* The specifications share the variables:                                 *)
(*   Spec         compare_function_stacks, one step per loop or call       *)
(*   SpecAnalyze  analyze_diff on one region, then the by-original view    *)
(*   SpecExtract  StackRegisterOffset.__str__ and                          *)
(*                extract_stack_offset_from_instruction on one line        *)
(*   SpecClassify the two views of the report, run twice                   *)
(*   SpecModule   ModuleMap.get_module                                     *)
(*   SpecOrder    suggest_order                                            *)
(***************************************************************************)
EXTENDS Integers, Sequences, FiniteSets, TLC

VARIABLES
    pc,             \* position in the function being run
    operand,        \* SpecExtract: what the instruction text is made from
    instruction,    \* SpecExtract: the line of disassembly text
    match,          \* SpecExtract: extract_stack_offset_from_instruction's result
    diff,           \* SpecAnalyze: the region given to analyze_diff
    returned,       \* SpecAnalyze: the set analyze_diff returned
    stack_pairs,    \* compare_function_stacks: the set of StackPair
    contributed,    \* history: the union of the sets analyze_diff returned so far
    warnings,       \* the Warnings object
    stack_symbols,  \* the dict offset -> StackSymbol, as a set of items
    iteration,      \* the order in which the final set stack_pairs iterates
    printed,        \* what was printed: the report entries, then the footer
    module_map,     \* roadmap: the ModuleMap object
    addr,           \* roadmap: the argument of ModuleMap.get_module
    module,         \* roadmap: what ModuleMap.get_module did
    dc              \* roadmap: the DeltaCollector object of suggest_order

\* The variables of the roadmap tool.
roadmap_vars == << module_map, addr, module, dc >>

vars == << pc, operand, instruction, match, diff, returned, stack_pairs,
           contributed, warnings, stack_symbols, iteration, printed,
           module_map, addr, module, dc >>

(***************************************************************************)
(* Bounds of the model.                                                    *)
(***************************************************************************)
MaxDigits == 4      \* digits of a literal in a generated line
MaxOffset == 300    \* |offset| of a rendered StackRegisterOffset
MaxLines == 2       \* lines on one side of a region
MaxPairs == 3       \* pairs in stack_pairs
MaxSymbols == 2     \* records in fn_symbol.stack_symbols

(***************************************************************************)
(* Python's None.  Every optional value of the model is a record, so None  *)
(* is one too.                                                             *)
(***************************************************************************)
None == [none |-> TRUE]

(***************************************************************************)
(* Characters.                                                             *)
(***************************************************************************)
LowerHexChars ==
    << "0", "1", "2", "3", "4", "5", "6", "7", "8", "9",
       "a", "b", "c", "d", "e", "f" >>

UpperHexChars ==
    << "0", "1", "2", "3", "4", "5", "6", "7", "8", "9",
       "A", "B", "C", "D", "E", "F" >>

\* The character class [0-9a-f] of STACK_ENTRY_REGEX.
IsRegexHexDigit(c) == \E k \in 1..16 : LowerHexChars[k] = c

\* The character class \s.
IsSpace(c) == c \in {" ", "\t", "\n", "\r", "\f"}

\* The value of one digit in base 16, in either case (int and bytes.fromhex
\* take both cases).
HexDigitValue(c) ==
    IF \E k \in 1..16 : LowerHexChars[k] = c
    THEN (CHOOSE k \in 1..16 : LowerHexChars[k] = c) - 1
    ELSE (CHOOSE k \in 1..16 : UpperHexChars[k] = c) - 1

RECURSIVE FoldBase16(_, _)
\* The digits of text read left to right in base 16, starting from acc.
FoldBase16(text, acc) ==
    IF text = << >> THEN acc
    ELSE FoldBase16(Tail(text), 16 * acc + HexDigitValue(Head(text)))

\* int(text, 16) for a text that is a sign, an optional "0x" and digits.
PyIntBase16(text) ==
    LET sign == IF Head(text) = "-" THEN -1 ELSE 1
        body == Tail(text)
        digits == IF Len(body) >= 2 /\ body[1] = "0" /\ body[2] \in {"x", "X"}
                  THEN SubSeq(body, 3, Len(body))
                  ELSE body
    IN  sign * FoldBase16(digits, 0)

(***************************************************************************)
(* StackSymbol and StackRegisterOffset.                                    *)
(***************************************************************************)
StackSymbol(name, data_type) == [name |-> name, data_type |-> data_type]

StackRegisterOffset(register, offset, symbol) ==
    [register |-> register, offset |-> offset, symbol |-> symbol]

\* An equality that compares the offsets alone.
RefEq_OffsetOnly(a, b) == a.offset = b.offset

\* StackRegisterOffset.__eq__: the symbol is not compared.
RefEq(a, b) == a.register = b.register /\ a.offset = b.offset

\* StackRegisterOffset.copy
Copy(ref) == StackRegisterOffset(ref.register, ref.offset, ref.symbol)

StackPair(orig, recomp) == [orig |-> orig, recomp |-> recomp]

RegisterChars(register) ==
    IF register = "ebp" THEN << "e", "b", "p" >> ELSE << "e", "s", "p" >>

RECURSIVE HexDigitsOf(_)
\* The digits of n >= 0 in base 16, lower case, no leading zero ("0" for 0).
HexDigitsOf(n) ==
    IF n < 16 THEN << LowerHexChars[n + 1] >>
    ELSE Append(HexDigitsOf(n \div 16), LowerHexChars[(n % 16) + 1])

\* A format specification of #04x with upper case digits.
FormatHex04_UpperCase(n) ==
    LET d == HexDigitsOf(n)
        u == [k \in 1..Len(d) |-> UpperHexChars[HexDigitValue(d[k]) + 1]]
    IN  << "0", "x" >> \o (IF Len(u) < 2 THEN << "0" >> \o u ELSE u)

\* format(n, "#04x") for n >= 0: "0x", then the digits padded with zeros to a
\* total width of four characters.
FormatHex04(n) ==
    LET d == HexDigitsOf(n)
    IN  << "0", "x" >> \o (IF Len(d) < 2 THEN << "0" >> \o d ELSE d)

\* StackRegisterOffset.__str__
Str(ref) ==
    LET first_part ==
            IF ref.offset > 0
            THEN RegisterChars(ref.register) \o << " ", "+", " " >>
                     \o FormatHex04(ref.offset)
            ELSE RegisterChars(ref.register) \o << " ", "-", " " >>
                     \o FormatHex04(-ref.offset)
        second_part ==
            IF ref.symbol # None THEN << " ", " " >> \o ref.symbol.name
            ELSE << >>
    IN  first_part \o second_part

\* The Warnings dataclass.
Warnings(structural, bijective) ==
    [structural_mismatches_present |-> structural,
     error_map_not_bijective |-> bijective]

(***************************************************************************)
(* STACK_ENTRY_REGEX and extract_stack_offset_from_instruction.            *)
(***************************************************************************)
RECURSIVE DigitRunEnd(_, _)
\* The index after the longest run of [0-9a-f] that starts at j.  The run is
\* greedy, and the lookahead (?![0-9a-f]) refuses every shorter one.
DigitRunEnd(s, j) ==
    IF j <= Len(s) /\ IsRegexHexDigit(s[j]) THEN DigitRunEnd(s, j + 1) ELSE j

\* A literal of at most two digits and no lookahead: [0-9a-f]{1,2}.
LiteralEnd_TwoDigits(s, j) ==
    IF DigitRunEnd(s, j) > j + 2 THEN j + 2 ELSE DigitRunEnd(s, j)

\* Where the group [0-9a-f]+(?![0-9a-f]) ends when it starts at j (j itself
\* when it does not match).
LiteralEnd(s, j) == DigitRunEnd(s, j)

\* The match of STACK_ENTRY_REGEX that starts at index i, or None.
MatchAt(s, i) ==
    IF /\ i + 6 <= Len(s)
       /\ s[i] = "e"
       /\ s[i + 1] \in {"s", "b"}
       /\ s[i + 2] = "p"
       /\ IsSpace(s[i + 3])
       /\ s[i + 4] \in {"+", "-"}
       /\ IsSpace(s[i + 5])
    THEN LET start == i + 6
             \* (0x)? is tried with the prefix first
             withPrefix ==
                 /\ start + 1 <= Len(s)
                 /\ s[start] = "0"
                 /\ s[start + 1] = "x"
                 /\ LiteralEnd(s, start + 2) > start + 2
             stop == IF withPrefix THEN LiteralEnd(s, start + 2)
                     ELSE LiteralEnd(s, start)
         IN  IF stop > start
             THEN [register |-> IF s[i + 1] = "b" THEN "ebp" ELSE "esp",
                   sign |-> s[i + 4],
                   offset |-> SubSeq(s, start, stop - 1)]
             ELSE None
    ELSE None

\* STACK_ENTRY_REGEX.search: the match at the leftmost index that has one.
RegexSearch(s) ==
    LET starts == {i \in 1..Len(s) : MatchAt(s, i) # None}
    IN  IF starts = {} THEN None
        ELSE MatchAt(s, CHOOSE i \in starts : \A k \in starts : i <= k)

extract_stack_offset_from_instruction(text) ==
    LET m == RegexSearch(text)
    IN  IF m = None THEN None
        ELSE StackRegisterOffset(m.register,
                                 PyIntBase16(<< m.sign >> \o m.offset), None)

(***************************************************************************)
(* SpecExtract: one line of text, rendered from a StackRegisterOffset or   *)
(* written out as <lead><register> <sign> <literal><trail>, is given to    *)
(* extract_stack_offset_from_instruction.                                  *)
(***************************************************************************)
Registers == {"ebp", "esp"}

SymbolFlags == StackSymbol(<< "m", "_", "f", "l", "a", "g", "s" >>,
                           << "i", "n", "t" >>)

SymbolArg == StackSymbol(<< "a", "r", "g" >>, << "i", "n", "t" >>)

\* The digits a generated literal is written with.
LiteralChars == {"0", "1", "9", "a", "f"}

DecimalChars == {"0", "1", "2", "3", "4", "5", "6", "7", "8", "9"}

Literals == UNION {[1..n -> LiteralChars] : n \in 1..MaxDigits}

\* What surrounds the reference in a generated line.
Contexts ==
    { [lead |-> << >>, trail |-> << >>],
      [lead |-> << "m", "o", "v", " ", "e", "a", "x", ",", " ", "[" >>,
       trail |-> << "]" >>],
      [lead |-> << "m", "o", "v", " ", "e", "b", "p", ",", " ", "[" >>,
       trail |-> << "]", ",", " ", "e", "s", "p" >>] }

WrittenOperands ==
    [kind : {"written"}, register : Registers, sign : {"+", "-"},
     prefixed : BOOLEAN, digits : Literals, context : Contexts]

RenderedOperands ==
    [kind : {"rendered"},
     ref : {StackRegisterOffset(r, o, s) :
               r \in Registers, o \in (-MaxOffset)..MaxOffset,
               s \in {None, SymbolFlags}}]

\* The text of a written operand.
WrittenLine(w) ==
    w.context.lead \o RegisterChars(w.register) \o << " ", w.sign, " " >>
        \o (IF w.prefixed THEN << "0", "x" >> ELSE << >>) \o w.digits
        \o w.context.trail

NoDiff == [kind |-> "none"]

\* What the variables a specification does not use hold.
IdleExtract ==
    /\ operand = None
    /\ instruction = << >>
    /\ match = None

IdleAnalyze ==
    /\ diff = NoDiff
    /\ returned = {}

IdleCompare ==
    /\ stack_pairs = {}
    /\ contributed = {}
    /\ stack_symbols = << >>
    /\ iteration = << >>

IdleRoadmap ==
    /\ module_map = None
    /\ addr = None
    /\ module = None
    /\ dc = None

InitExtract ==
    /\ IdleRoadmap
    /\ \/ /\ pc = "render"
          /\ operand \in RenderedOperands
          /\ instruction = << >>
       \/ /\ pc = "extract"
          /\ operand \in WrittenOperands
          /\ instruction = WrittenLine(operand)
    /\ match = None
    /\ IdleAnalyze
    /\ IdleCompare
    /\ warnings = Warnings(FALSE, FALSE)
    /\ printed = << >>

\* str(ref)
Render ==
    /\ pc = "render"
    /\ instruction' = Str(operand.ref)
    /\ pc' = "extract"
    /\ UNCHANGED roadmap_vars
    /\ UNCHANGED << operand, match, diff, returned, stack_pairs, contributed,
                    warnings, stack_symbols, iteration, printed >>

\* extract_stack_offset_from_instruction(instruction)
Extract ==
    /\ pc = "extract"
    /\ match' = extract_stack_offset_from_instruction(instruction)
    /\ pc' = "extracted"
    /\ UNCHANGED roadmap_vars
    /\ UNCHANGED << operand, instruction, diff, returned, stack_pairs,
                    contributed, warnings, stack_symbols, iteration, printed >>

NextExtract == Render \/ Extract

SpecExtract == InitExtract /\ [][NextExtract]_vars

(***************************************************************************)
(* The regions of a diff.  A line of the code is a tuple whose element 1   *)
(* is the instruction text (the others are addresses, which only the log   *)
(* messages read): the model keeps the text.  A region is the dict         *)
(* {"both": lines} or {"orig": lines, "recomp": lines}.  A "both" line     *)
(* holds one text, the upstream diff having found its two sides equal;     *)
(* the model also carries the text of the recomp side, recomp_text, which  *)
(* analyze_diff does not read, so that statements about the two lines of   *)
(* an aligned pair can be written down.                                    *)
(***************************************************************************)
LineLocal ==
    << "m", "o", "v", " ", "e", "a", "x", ",", " ", "[",
       "e", "b", "p", " ", "-", " ", "0", "x", "4", "]" >>

LineArg ==
    << "m", "o", "v", " ", "e", "a", "x", ",", " ", "[",
       "e", "b", "p", " ", "+", " ", "0", "x", "8", "]" >>

LineEsp ==
    << "m", "o", "v", " ", "e", "a", "x", ",", " ", "[",
       "e", "s", "p", " ", "+", " ", "0", "x", "8", "]" >>

LinePush == << "p", "u", "s", "h", " ", "e", "b", "p" >>

Lines == {LineLocal, LineArg, LineEsp, LinePush}

SideLines == UNION {[1..n -> Lines] : n \in 0..MaxLines}

BothLines ==
    UNION {[1..n -> [instruction : Lines, recomp_text : Lines]] :
              n \in 0..MaxLines}

\* Every region of the bounds, the aligned ones with any two texts.
Regions ==
    [kind : {"both"}, both : BothLines]
        \cup [kind : {"orig_recomp"}, orig : SideLines, recomp : SideLines]

\* The regions the diff can hold: the two sides of a "both" line are equal.
DiffRegions ==
    {d \in Regions :
        d.kind = "both"
            => \A k \in 1..Len(d.both) :
                   d.both[k].recomp_text = d.both[k].instruction}

\* extract_stack_offset_from_instruction on the lines of the regions,
\* computed once for each line.
ExtractedLines == [l \in Lines |-> extract_stack_offset_from_instruction(l)]

ExtractLine(l) == ExtractedLines[l]

(***************************************************************************)
(* analyze_diff                                                            *)
(***************************************************************************)
\* The "both" branch: one pair of equal references for each line that has
\* a reference.
AnalyzeBoth(lines) ==
    {StackPair(ExtractLine(lines[k].instruction),
               Copy(ExtractLine(lines[k].instruction))) :
        k \in {j \in 1..Len(lines) : ExtractLine(lines[j].instruction) # None}}

\* A length check that only sees an original side that is the longer one.
LengthsDiffer_OrigLonger(orig, recomp) == Len(orig) > Len(recomp)

\* len(orig) != len(recomp)
LengthsDiffer(orig, recomp) == Len(orig) # Len(recomp)

\* A loop that keeps the pairs found before the break.
BreakResult_KeepEarlier(found) == [pairs |-> found, broke |-> TRUE]

\* return set() after a line whose original side has a reference and whose
\* recomp side has none: the pairs found so far are dropped.
BreakResult(found) == [pairs |-> {}, broke |-> TRUE]

RECURSIVE ZipLoop(_, _, _, _)
\* for orig_line, recomp_line in zip(orig, recomp), from position i on.
ZipLoop(orig, recomp, i, found) ==
    IF i > Len(orig) \/ i > Len(recomp)
    THEN [pairs |-> found, broke |-> FALSE]
    ELSE LET orig_match == ExtractLine(orig[i])
             recomp_match == ExtractLine(recomp[i])
         IN  IF orig_match # None
             THEN IF recomp_match = None
                  THEN BreakResult(found)
                  ELSE ZipLoop(orig, recomp, i + 1,
                               found
                                   \cup {StackPair(orig_match, recomp_match)})
             ELSE ZipLoop(orig, recomp, i + 1, found)

\* analyze_diff(diff, warnings): the set returned and the Warnings object
\* after the call.
analyze_diff(d, w) ==
    IF d.kind = "both"
    THEN [pairs |-> AnalyzeBoth(d.both), warnings |-> w]
    ELSE IF LengthsDiffer(d.orig, d.recomp)
         THEN [pairs |-> {},
               warnings |-> [w EXCEPT !.structural_mismatches_present = TRUE]]
         ELSE LET loop == ZipLoop(d.orig, d.recomp, 1, {})
              IN  [pairs |-> loop.pairs,
                   warnings |->
                       IF loop.broke
                       THEN [w EXCEPT !.structural_mismatches_present = TRUE]
                       ELSE w]

(***************************************************************************)
(* compare_function_stacks: the debug symbols.                             *)
(***************************************************************************)
\* A dict is a function on its keys.
DictGet(d, k) == IF k \in DOMAIN d THEN d[k] ELSE None

DictSet(d, k, v) == [x \in (DOMAIN d) \cup {k} |-> IF x = k THEN v ELSE d[x]]

\* The records of fn_symbol.stack_symbols the model draws from.
EntryFlags ==
    [symbol_type |-> "S_BPREL32",
     location |-> << "[", "F", "F", "F", "F", "F", "F", "F", "C", "]" >>,
     name |-> << "m", "_", "f", "l", "a", "g", "s" >>,
     data_type |-> << "i", "n", "t" >>]

EntryArg ==
    [symbol_type |-> "S_BPREL32",
     location |-> << "[", "0", "0", "0", "0", "0", "0", "0", "8", "]" >>,
     name |-> << "a", "r", "g" >>,
     data_type |-> << "i", "n", "t" >>]

EntryRegister ==
    [symbol_type |-> "S_REGISTER",
     location |-> << "e", "s", "i" >>,
     name |-> << "c", "o", "u", "n", "t" >>,
     data_type |-> << "i", "n", "t" >>]

SymbolEntries == {EntryFlags, EntryArg, EntryRegister}

SymbolTables == UNION {[1..n -> SymbolEntries] : n \in 0..MaxSymbols}

\* struct.unpack(">l", bytes.fromhex(location[1:-1]))[0]: the eight digits
\* between the brackets as a signed 32 bit integer, most significant byte
\* first.  A first digit of 8 or more is the sign bit: it counts as itself
\* minus 16.
UnpackLocation(location) ==
    LET text == SubSeq(location, 2, Len(location) - 1)
        high == HexDigitValue(Head(text))
    IN  FoldBase16(Tail(text), IF high >= 8 THEN high - 16 ELSE high)

RECURSIVE BuildStackSymbols(_, _)
\* for symbol in fn_symbol.stack_symbols, from the dict d on.
BuildStackSymbols(entries, d) ==
    IF entries = << >> THEN d
    ELSE LET symbol == Head(entries)
         IN  IF symbol.symbol_type = "S_BPREL32"
             THEN BuildStackSymbols(
                      Tail(entries),
                      DictSet(d, UnpackLocation(symbol.location),
                              StackSymbol(symbol.name, symbol.data_type)))
             ELSE BuildStackSymbols(Tail(entries), d)

\* An enrichment that looks every recomp reference up, whatever its register.
EnrichRecomp_AnyRegister(recomp, symbols) ==
    [recomp EXCEPT !.symbol = DictGet(symbols, recomp.offset)]

\* The body of "for _, recomp in stack_pairs".
EnrichRecomp(recomp, symbols) ==
    IF recomp.register = "ebp"
    THEN [recomp EXCEPT !.symbol = DictGet(symbols, recomp.offset)]
    ELSE recomp

EnrichPair(pair, symbols) ==
    StackPair(pair.orig, EnrichRecomp(pair.recomp, symbols))

\* A loop that forgets what the earlier regions gave when a region gives
\* nothing.
UnionPairs_ResetOnEmpty(pairs, new) == IF new = {} THEN {} ELSE pairs \cup new

\* stack_pairs.union(analyze_diff(diff, warnings)).  No reference has a
\* symbol yet, so equal pairs are equal records.
UnionPairs(pairs, new) == pairs \cup new

(***************************************************************************)
(* The order in which a set iterates.  It follows the hashes of its        *)
(* elements, and hash(register) changes from one run of the interpreter to *)
(* the next: any order can be the one, and it stays the same for as long   *)
(* as the set is not changed.                                              *)
(***************************************************************************)
Orderings(S) ==
    {f \in [1..Cardinality(S) -> S] :
        \A i, j \in 1..Cardinality(S) : f[i] = f[j] => i = j}

RECURSIVE Sorted(_)
\* sorted(S) for a set of integers.
Sorted(S) ==
    IF S = {} THEN << >>
    ELSE LET least == CHOOSE x \in S : \A y \in S : x <= y
         IN  << least >> \o Sorted(S \ {least})

(***************************************************************************)
(* The printers.  What is printed is kept as a sequence of entries: the    *)
(* view, the kind of line (the icon) and the references on the left and on *)
(* the right, which the code prints with str().                            *)
(***************************************************************************)
PrintedLine(view, kind, left, right) ==
    [view |-> view, kind |-> kind, left |-> left, right |-> right]

\* print_bijective_match
BijectiveMatch(view, left, right, exact) ==
    PrintedLine(view, IF exact THEN "exact" ELSE "reordered", left, right)

\* print_non_bijective_match
NonBijectiveMatch(view, left, right) ==
    PrintedLine(view, "non_bijective", left, right)

\* An assignment that flips the flag instead of setting it.
SetErrorMapNotBijective_Flip(w) ==
    [w EXCEPT !.error_map_not_bijective = ~w.error_map_not_bijective]

\* warnings.error_map_not_bijective = True
SetErrorMapNotBijective(w) == [w EXCEPT !.error_map_not_bijective = TRUE]

\* print_by_original_stack(stack_pairs, warnings), the set iterating as the
\* sequence iter: the lines printed and the Warnings object after the call.
print_by_original_stack(iter, w) ==
    LET all_orig_offsets == {iter[i].orig.offset : i \in 1..Len(iter)}
        offsets == Sorted(all_orig_offsets)
        EntryOf(orig_offset) ==
            LET first == CHOOSE i \in 1..Len(iter) :
                             /\ iter[i].orig.offset = orig_offset
                             /\ \A j \in 1..(i - 1) :
                                    iter[j].orig.offset # orig_offset
                orig == iter[first].orig
                HasOrig(x) == RefEq(x.orig, orig)
                chosen == SelectSeq(iter, HasOrig)
                recomps == [k \in 1..Len(chosen) |-> chosen[k].recomp]
            IN  IF Len(recomps) = 1
                THEN BijectiveMatch("original", << orig >>, recomps,
                                    RefEq(orig, recomps[1]))
                ELSE NonBijectiveMatch("original", << orig >>, recomps)
        entries == [k \in 1..Len(offsets) |-> EntryOf(offsets[k])]
    IN  [lines |-> << PrintedLine("original", "header", << >>, << >>) >>
                       \o entries,
         warnings |->
             IF \E k \in 1..Len(entries) : entries[k].kind = "non_bijective"
             THEN SetErrorMapNotBijective(w)
             ELSE w]

\* print_by_recomp_stack(stack_pairs, stack_symbols, warnings)
print_by_recomp_stack(iter, symbols, w) ==
    LET all_recomp_offsets ==
            {iter[i].recomp.offset : i \in 1..Len(iter)} \cup DOMAIN symbols
        offsets == Sorted(all_recomp_offsets)
        EntryOf(recomp_offset) ==
            IF \A i \in 1..Len(iter) : iter[i].recomp.offset # recomp_offset
            THEN PrintedLine("recomp", "not_seen", << >>,
                             << StackRegisterOffset("ebp", recomp_offset,
                                                    symbols[recomp_offset]) >>)
            ELSE LET first == CHOOSE i \in 1..Len(iter) :
                                  /\ iter[i].recomp.offset = recomp_offset
                                  /\ \A j \in 1..(i - 1) :
                                         iter[j].recomp.offset # recomp_offset
                     recomp == iter[first].recomp
                     HasRecomp(x) == RefEq(x.recomp, recomp)
                     chosen == SelectSeq(iter, HasRecomp)
                     origs == [k \in 1..Len(chosen) |-> chosen[k].orig]
                 IN  IF Len(origs) = 1
                     THEN BijectiveMatch("recomp", origs, << recomp >>,
                                         RefEq(origs[1], recomp))
                     ELSE NonBijectiveMatch("recomp", origs, << recomp >>)
        entries == [k \in 1..Len(offsets) |-> EntryOf(offsets[k])]
    IN  [lines |-> << PrintedLine("recomp", "header", << >>, << >>) >>
                       \o entries,
         warnings |->
             IF \E k \in 1..Len(entries) : entries[k].kind = "non_bijective"
             THEN SetErrorMapNotBijective(w)
             ELSE w]

\* A footer that looks at the structural flag first.
print_footer_StructuralFirst(w) ==
    << PrintedLine("footer", "legend", << >>, << >>) >>
        \o (IF w.structural_mismatches_present
            THEN << PrintedLine("footer", "warning", << >>, << >>) >>
            ELSE IF w.error_map_not_bijective
                 THEN << PrintedLine("footer", "error", << >>, << >>) >>
                 ELSE << >>)

\* print_footer(warnings): the legend, then the error, the warning or
\* nothing.
print_footer(w) ==
    << PrintedLine("footer", "legend", << >>, << >>) >>
        \o (IF w.error_map_not_bijective
            THEN << PrintedLine("footer", "error", << >>, << >>) >>
            ELSE IF w.structural_mismatches_present
                 THEN << PrintedLine("footer", "warning", << >>, << >>) >>
                 ELSE << >>)

(***************************************************************************)
(* Spec: compare_function_stacks.  The regions of udiff and the records of *)
(* fn_symbol are read when the code reads them.                            *)
(***************************************************************************)
Init ==
    /\ IdleRoadmap
    /\ pc = "diffs"
    /\ stack_pairs = {}
    /\ contributed = {}
    /\ warnings = Warnings(FALSE, FALSE)
    /\ stack_symbols = << >>
    /\ iteration = << >>
    /\ printed = << >>
    /\ IdleExtract
    /\ IdleAnalyze

\* One turn of "for diff in block[1]", for any next region that keeps the
\* set within MaxPairs.
AnalyzeNextDiff ==
    /\ pc = "diffs"
    /\ \E d \in DiffRegions :
           LET result == analyze_diff(d, warnings)
           IN  /\ Cardinality(UnionPairs(stack_pairs, result.pairs)) <= MaxPairs
               /\ stack_pairs' = UnionPairs(stack_pairs, result.pairs)
               /\ contributed' = contributed \cup result.pairs
               /\ warnings' = result.warnings
    /\ UNCHANGED roadmap_vars
    /\ UNCHANGED << pc, operand, instruction, match, diff, returned,
                    stack_symbols, iteration, printed >>

\* udiff has no region left.
EndOfDiffs ==
    /\ pc = "diffs"
    /\ pc' = "symbols"
    /\ UNCHANGED roadmap_vars
    /\ UNCHANGED << operand, instruction, match, diff, returned, stack_pairs,
                    contributed, warnings, stack_symbols, iteration, printed >>

\* The loop that fills stack_symbols.
ReadStackSymbols ==
    /\ pc = "symbols"
    /\ \E entries \in SymbolTables :
           stack_symbols' = BuildStackSymbols(entries, << >>)
    /\ pc' = "enrich"
    /\ UNCHANGED roadmap_vars
    /\ UNCHANGED << operand, instruction, match, diff, returned, stack_pairs,
                    contributed, warnings, iteration, printed >>

\* The loop that attaches the symbols; it is the first to iterate the set.
EnrichPairs ==
    /\ pc = "enrich"
    /\ \E order \in Orderings(stack_pairs) :
           iteration' = [k \in 1..Len(order) |->
                            EnrichPair(order[k], stack_symbols)]
    /\ stack_pairs' = {EnrichPair(p, stack_symbols) : p \in stack_pairs}
    /\ pc' = "print_original"
    /\ UNCHANGED roadmap_vars
    /\ UNCHANGED << operand, instruction, match, diff, returned, contributed,
                    warnings, stack_symbols, printed >>

PrintByOriginalStack ==
    /\ pc = "print_original"
    /\ LET out == print_by_original_stack(iteration, warnings)
       IN  /\ printed' = printed \o out.lines
           /\ warnings' = out.warnings
    /\ pc' = "print_recomp"
    /\ UNCHANGED roadmap_vars
    /\ UNCHANGED << operand, instruction, match, diff, returned, stack_pairs,
                    contributed, stack_symbols, iteration >>

PrintByRecompStack ==
    /\ pc = "print_recomp"
    /\ LET out == print_by_recomp_stack(iteration, stack_symbols, warnings)
       IN  /\ printed' = printed \o out.lines
           /\ warnings' = out.warnings
    /\ pc' = "print_footer"
    /\ UNCHANGED roadmap_vars
    /\ UNCHANGED << operand, instruction, match, diff, returned, stack_pairs,
                    contributed, stack_symbols, iteration >>

PrintFooter ==
    /\ pc = "print_footer"
    /\ printed' = printed \o print_footer(warnings)
    /\ pc' = "done"
    /\ UNCHANGED roadmap_vars
    /\ UNCHANGED << operand, instruction, match, diff, returned, stack_pairs,
                    contributed, warnings, stack_symbols, iteration >>

Next ==
    \/ AnalyzeNextDiff
    \/ EndOfDiffs
    \/ ReadStackSymbols
    \/ EnrichPairs
    \/ PrintByOriginalStack
    \/ PrintByRecompStack
    \/ PrintFooter

Spec == Init /\ [][Next]_vars

(***************************************************************************)
(* SpecAnalyze: analyze_diff on one region of the bounds, with a Warnings  *)
(* object in either state, then print_by_original_stack on the set it      *)
(* returned.                                                               *)
(***************************************************************************)
InitAnalyze ==
    /\ IdleRoadmap
    /\ pc = "analyze"
    /\ diff \in Regions
    /\ returned = {}
    /\ warnings \in {Warnings(s, FALSE) : s \in BOOLEAN}
    /\ printed = << >>
    /\ IdleExtract
    /\ IdleCompare

AnalyzeDiff ==
    /\ pc = "analyze"
    /\ LET result == analyze_diff(diff, warnings)
       IN  /\ returned' = result.pairs
           /\ warnings' = result.warnings
    /\ pc' = "classify"
    /\ UNCHANGED roadmap_vars
    /\ UNCHANGED << operand, instruction, match, diff, stack_pairs,
                    contributed, stack_symbols, iteration, printed >>

ClassifyReturned ==
    /\ pc = "classify"
    /\ \E order \in Orderings(returned) :
           LET out == print_by_original_stack(order, warnings)
           IN  /\ iteration' = order
               /\ printed' = out.lines
               /\ warnings' = out.warnings
    /\ pc' = "classified"
    /\ UNCHANGED roadmap_vars
    /\ UNCHANGED << operand, instruction, match, diff, returned, stack_pairs,
                    contributed, stack_symbols >>

NextAnalyze == AnalyzeDiff \/ ClassifyReturned

SpecAnalyze == InitAnalyze /\ [][NextAnalyze]_vars

(***************************************************************************)
(* SpecClassify: the two views, print_by_original_stack then               *)
(* print_by_recomp_stack, run twice on one set of pairs, one dict of       *)
(* symbols and one Warnings object.  The set is any set of pairs that the  *)
(* references of the lines can make, with the symbols attached as          *)
(* compare_function_stacks attaches them.  The set is not changed between  *)
(* the runs, so it iterates in the same order in both.                     *)
(***************************************************************************)
\* The references the lines of the regions hold.
LineReferences == {ExtractLine(l) : l \in Lines} \ {None}

\* The pairs analyze_diff can return.
ResultPairs == {StackPair(o, r) : o \in LineReferences, r \in LineReferences}

InitClassify ==
    /\ IdleRoadmap
    /\ pc = "first_original"
    /\ \E entries \in SymbolTables :
           stack_symbols = BuildStackSymbols(entries, << >>)
    /\ \E found \in SUBSET ResultPairs :
           /\ Cardinality(found) <= MaxPairs
           /\ stack_pairs = {EnrichPair(p, stack_symbols) : p \in found}
    /\ iteration \in Orderings(stack_pairs)
    /\ warnings \in {Warnings(s, b) : s \in BOOLEAN, b \in BOOLEAN}
    /\ contributed = {}
    /\ printed = << >>
    /\ IdleExtract
    /\ IdleAnalyze

\* print_by_original_stack(stack_pairs, warnings), in the first run and in
\* the second.
ClassifyByOriginalStack ==
    /\ pc \in {"first_original", "second_original"}
    /\ LET out == print_by_original_stack(iteration, warnings)
       IN  /\ printed' = printed \o out.lines
           /\ warnings' = out.warnings
    /\ pc' = IF pc = "first_original" THEN "first_recomp" ELSE "second_recomp"
    /\ UNCHANGED roadmap_vars
    /\ UNCHANGED << operand, instruction, match, diff, returned, stack_pairs,
                    contributed, stack_symbols, iteration >>

\* print_by_recomp_stack(stack_pairs, stack_symbols, warnings), in the first
\* run and in the second.
ClassifyByRecompStack ==
    /\ pc \in {"first_recomp", "second_recomp"}
    /\ LET out == print_by_recomp_stack(iteration, stack_symbols, warnings)
       IN  /\ printed' = printed \o out.lines
           /\ warnings' = out.warnings
    /\ pc' = IF pc = "first_recomp" THEN "second_original" ELSE "classified_twice"
    /\ UNCHANGED roadmap_vars
    /\ UNCHANGED << operand, instruction, match, diff, returned, stack_pairs,
                    contributed, stack_symbols, iteration >>

NextClassify == ClassifyByOriginalStack \/ ClassifyByRecompStack

SpecClassify == InitClassify /\ [][NextClassify]_vars

(***************************************************************************)
(* roadmap.py: ModuleMap.  A section contribution is the tuple             *)
(* (start, size, module id); a module is the tuple (lib, obj) of two       *)
(* texts.                                                                  *)
(***************************************************************************)
MaxContribs == 2    \* section contributions in the ModuleMap
MaxAddress == 5     \* the highest start address of a contribution

CMakeFilesChars == << "C", "M", "a", "k", "e", "F", "i", "l", "e", "s" >>

\* The .obj files of the modules.
ObjX == CMakeFilesChars \o << "/", "a", ".", "d", "i", "r", "/",
                              "x", ".", "o", "b", "j" >>

ObjY == CMakeFilesChars \o << "/", "a", ".", "d", "i", "r", "/",
                              "y", ".", "o", "b", "j" >>

ObjZ == CMakeFilesChars \o << "/", "a", ".", "d", "i", "r", "/",
                              "z", ".", "o", "b", "j" >>

ObjW == CMakeFilesChars \o << "/", "b", ".", "d", "i", "r", "/",
                              "w", ".", "o", "b", "j" >>

ObjSmack == << "s", "m", "k", ".", "o", "b", "j" >>

\* The libraries of the modules.
LibSmack == << "l", "i", "b", "/", "s", "m", "k", ".", "l", "i", "b" >>

Module(lib, obj) == [lib |-> lib, obj |-> obj]

\* self.module_lookup: the modules of the pdb by id.
ModuleLookup ==
    (1 :> Module(ObjX, ObjX)) @@ (2 :> Module(ObjY, ObjY))
        @@ (3 :> Module(ObjZ, ObjZ)) @@ (4 :> Module(ObjW, ObjW))
        @@ (5 :> Module(LibSmack, ObjSmack))

\* self.library_lookup
LibraryLookup ==
    [obj \in {ModuleLookup[id].obj : id \in DOMAIN ModuleLookup} |->
        (CHOOSE m \in {ModuleLookup[id] : id \in DOMAIN ModuleLookup} :
             m.obj = obj).lib]

Contribution(start, size, module_id) ==
    [start |-> start, size |-> size, module_id |-> module_id]

\* The lists self.section_contrib of the bounds: sorted by start address,
\* no contribution reaching into the next one.  The module id 9 is one that
\* module_lookup does not hold.
SectionContribs ==
    UNION {{c \in [1..n -> {Contribution(a, z, id) :
                               a \in 0..MaxAddress, z \in 1..2,
                               id \in {1, 5, 9}}] :
               \A k \in 1..(n - 1) : c[k].start + c[k].size <= c[k + 1].start} :
             n \in 0..MaxContribs}

\* The ModuleMap object after __init__.
ModuleMap(section_contrib) ==
    [module_lookup |-> ModuleLookup,
     library_lookup |-> LibraryLookup,
     section_contrib |-> section_contrib,
     contrib_starts |->
         [k \in 1..Len(section_contrib) |-> section_contrib[k].start]]

RECURSIVE BisectLoop(_, _, _, _)
\* The loop of bisect.bisect_left, the indices counted from 0.
BisectLoop(a, x, lo, hi) ==
    IF lo < hi
    THEN LET mid == (lo + hi) \div 2
         IN  IF a[mid + 1] < x THEN BisectLoop(a, x, mid + 1, hi)
             ELSE BisectLoop(a, x, lo, mid)
    ELSE lo

bisect_left(a, x) == BisectLoop(a, x, 0, Len(a))

\* What a call did: it returned a value or it raised an exception.
Returned(value) == [outcome |-> "returned", value |-> value]

Raised(exception) == [outcome |-> "raised", exception |-> exception]

Max(a, b) == IF a >= b THEN a ELSE b

Min(a, b) == IF a <= b THEN a ELSE b

\* ModuleMap.get_module(addr).  The list is indexed with i before i is
\* clamped: an index equal to the length of the list raises IndexError.
get_module(self, a) ==
    LET i == bisect_left(self.contrib_starts, a)
    IN  IF i >= Len(self.section_contrib) THEN Raised("IndexError")
        ELSE LET potential_start == self.section_contrib[i + 1].start
                 stepped == IF potential_start # a THEN i - 1 ELSE i
                 clamped ==
                     Max(0, Min(stepped, Len(self.section_contrib) - 1))
                 found == self.section_contrib[clamped + 1]
             IN  IF found.start <= a /\ a < found.start + found.size
                 THEN Returned(DictGet(self.module_lookup, found.module_id))
                 ELSE Returned(None)

(***************************************************************************)
(* SpecModule: get_module on a ModuleMap of the bounds, for the addresses  *)
(* from below the first start to above the last one.                       *)
(***************************************************************************)
InitModule ==
    /\ pc = "get_module"
    /\ module_map \in {ModuleMap(c) : c \in SectionContribs}
    /\ addr = None
    /\ module = None
    /\ dc = None
    /\ IdleExtract
    /\ IdleAnalyze
    /\ IdleCompare
    /\ warnings = Warnings(FALSE, FALSE)
    /\ printed = << >>

\* module_map.get_module(addr)
GetModule ==
    /\ pc = "get_module"
    /\ \E a \in (-1)..(MaxAddress + 3) :
           /\ addr' = a
           /\ module' = get_module(module_map, a)
    /\ pc' = "got_module"
    /\ UNCHANGED << module_map, dc >>
    /\ UNCHANGED << operand, instruction, match, diff, returned, stack_pairs,
                    contributed, warnings, stack_symbols, iteration, printed >>

NextModule == GetModule

SpecModule == InitModule /\ [][NextModule]_vars

(***************************************************************************)
(* roadmap.py: the texts of module names.                                  *)
(***************************************************************************)
StartsWith(text, prefix) ==
    Len(prefix) <= Len(text) /\ SubSeq(text, 1, Len(prefix)) = prefix

EndsWith(text, suffix) ==
    /\ Len(suffix) <= Len(text)
    /\ SubSeq(text, Len(text) - Len(suffix) + 1, Len(text)) = suffix

\* The characters of the module names, in the order of their code points.
CharOrder ==
    << ".", "/", "C", "F", "M", "a", "b", "d", "e", "i", "j", "k", "l", "m",
       "o", "r", "s", "w", "x", "y", "z" >>

CharCode(c) == CHOOSE k \in 1..Len(CharOrder) : CharOrder[k] = c

RECURSIVE TextLess(_, _)
\* s < t for two str.
TextLess(s, t) ==
    IF t = << >> THEN FALSE
    ELSE IF s = << >> THEN TRUE
    ELSE IF Head(s) = Head(t) THEN TextLess(Tail(s), Tail(t))
    ELSE CharCode(Head(s)) < CharCode(Head(t))

RECURSIVE SortedTexts(_)
\* sorted(S) for a set of str.
SortedTexts(S) ==
    IF S = {} THEN << >>
    ELSE LET least == CHOOSE x \in S : \A y \in S \ {x} : TextLess(x, y)
         IN  << least >> \o SortedTexts(S \ {least})

\* get_cmakefiles_prefix(module): the first two tokens of module.split("/", 2)
\* joined with "/", and a "/" after them.
get_cmakefiles_prefix(name) ==
    IF StartsWith(name, CMakeFilesChars)
    THEN LET slashes == {i \in 1..Len(name) : name[i] = "/"}
             first == CHOOSE i \in slashes : \A j \in slashes : i <= j
             later == slashes \ {first}
         IN  IF slashes = {} \/ later = {} THEN name \o << "/" >>
             ELSE SubSeq(name, 1, CHOOSE i \in later : \A j \in later : i <= j)
    ELSE name

\* truncate_module_name(prefix, module)
truncate_module_name(prefix, name) ==
    LET cut == IF StartsWith(name, prefix)
               THEN SubSeq(name, Len(prefix) + 1, Len(name)) ELSE name
    IN  IF EndsWith(cut, << ".", "o", "b", "j" >>)
        THEN SubSeq(cut, 1, Len(cut) - 4) ELSE cut

\* os.path.basename(path)
basename(path) ==
    LET slashes == {i \in 1..Len(path) : path[i] = "/"}
    IN  IF slashes = {} THEN path
        ELSE SubSeq(path, (CHOOSE i \in slashes : \A j \in slashes : j <= i) + 1,
                    Len(path))

\* ModuleMap.get_all_cmake_modules
get_all_cmake_modules(self) ==
    {self.module_lookup[id].obj :
        id \in {k \in DOMAIN self.module_lookup :
                   StartsWith(self.module_lookup[k].obj, CMakeFilesChars)}}

\* ModuleMap.get_lib_for_module: the lib, or None, as an optional value.
get_lib_for_module(self, name) == DictGet(self.library_lookup, name)

(***************************************************************************)
(* roadmap.py: DeltaCollector.  An optional field of a row is None or      *)
(* Some(value).  The dict addresses keeps the order in which its keys were *)
(* inserted, which the sort of iter_sorted keeps among equal averages: it  *)
(* is the sequence of its items.                                           *)
(***************************************************************************)
MaxRows == 3        \* rows of results that the collector records
MaxRowAddress == 3  \* the highest orig_addr of a row

Some(value) == [some |-> value]

RoadmapRow(orig_addr, displacement, sym_type, name) ==
    [orig_addr |-> orig_addr, displacement |-> displacement,
     sym_type |-> sym_type, module |-> name]

ALLOWED_TYPE_ABBREVIATIONS == {"fun", "dat", "poi", "str", "vta", "flo"}

\* DeltaCollector.__init__, for a match_type that is an abbreviation in
\* lower case already.
DeltaCollector(match_type) ==
    [disp_map |-> << >>,
     addresses |-> << >>,
     earliest |-> << >>,
     match_type |-> IF match_type \in ALLOWED_TYPE_ABBREVIATIONS
                    THEN match_type ELSE "fun"]

\* The index of a key among the items of an ordered dict, 0 when absent.
ItemIndex(items, key) ==
    IF \E k \in 1..Len(items) : items[k].key = key
    THEN CHOOSE k \in 1..Len(items) : items[k].key = key
    ELSE 0

\* d.setdefault(key, []).append(value) on an ordered dict.
ItemAppend(items, key, value) ==
    IF ItemIndex(items, key) = 0
    THEN Append(items, [key |-> key, value |-> << value >>])
    ELSE [items EXCEPT ![ItemIndex(items, key)].value = Append(@, value)]

\* DeltaCollector.read_row.  No address is as high as the default
\* 0xFFFFFFFFF of earliest.get: a module without an earliest address takes
\* the address of the row.
read_row(self, row) ==
    IF row.module = None THEN self
    ELSE IF row.sym_type # self.match_type THEN self
    ELSE LET name == row.module.some
             with_address ==
                 IF row.orig_addr # None
                 THEN [self EXCEPT
                          !.addresses = ItemAppend(@, name, row.orig_addr.some),
                          !.earliest =
                              IF name \notin DOMAIN @
                                     \/ row.orig_addr.some < @[name]
                              THEN DictSet(@, name, row.orig_addr.some)
                              ELSE @]
                 ELSE self
         IN  IF row.displacement # None
             THEN [with_address EXCEPT
                      !.disp_map =
                          DictSet(@, name,
                                  (IF name \in DOMAIN @ THEN @[name]
                                   ELSE << >>)
                                      \o << row.displacement.some >>)]
             ELSE with_address

RECURSIVE SumOf(_)
SumOf(values) ==
    IF values = << >> THEN 0 ELSE Head(values) + SumOf(Tail(values))

\* int(x / n) for n > 0: the quotient rounded towards zero.
IntOfQuotient(x, n) == IF x >= 0 THEN x \div n ELSE -((-x) \div n)

\* avg_remove_outliers.  With avg = S / n and sd the population standard
\* deviation, abs(e - avg) <= 2 * sd is n * (n * e - S)^2 <= 4 * Q, where
\* Q is the sum of the (n * e_i - S)^2.
avg_remove_outliers(entries) ==
    IF Len(entries) = 1 THEN entries[1]
    ELSE LET n == Len(entries)
             total == SumOf(entries)
             Square(x) == x * x
             spread == SumOf([k \in 1..n |-> Square(n * entries[k] - total)])
             Kept(e) == n * Square(n * e - total) <= 4 * spread
             kept == SelectSeq(entries, Kept)
         IN  IntOfQuotient(SumOf(kept), Len(kept))

RECURSIVE StableSortByValue(_)
\* sorted(d.items(), key=lambda x: x[1]): the least value first, and among
\* equal values the item that comes first.
StableSortByValue(items) ==
    IF items = << >> THEN << >>
    ELSE LET first == CHOOSE i \in 1..Len(items) :
                          /\ \A j \in 1..Len(items) :
                                 items[i].value <= items[j].value
                          /\ \A j \in 1..(i - 1) :
                                 items[j].value # items[i].value
         IN  << items[first] >>
                 \o StableSortByValue(SubSeq(items, 1, first - 1)
                                          \o SubSeq(items, first + 1, Len(items)))

\* list(dc.iter_sorted()): the pairs (avg, mod).
iter_sorted(self) ==
    LET avg_address ==
            [k \in 1..Len(self.addresses) |->
                [key |-> self.addresses[k].key,
                 value |-> avg_remove_outliers(self.addresses[k].value)]]
        sorted == StableSortByValue(avg_address)
    IN  [k \in 1..Len(sorted) |->
            [avg |-> sorted[k].value, mod |-> sorted[k].key]]

(***************************************************************************)
(* roadmap.py: suggest_order.  What it prints is kept as a sequence of     *)
(* lines: the kind of line, its text, and for the line of a module the     *)
(* earliest address, the mark and the average displacement.                *)
(***************************************************************************)
OrderLine(kind, text, address, mark, displacement) ==
    [view |-> "order", kind |-> kind, text |-> text, address |-> address,
     mark |-> mark, displacement |-> displacement]

\* What a part of suggest_order printed, the set leftover_modules after it,
\* and the exception that ended it ("" when none did).
Listing(lines, leftover, raised) ==
    [lines |-> lines, leftover |-> leftover, raised |-> raised]

RECURSIVE ModuleLoop(_, _, _, _, _, _, _)
\* "for _, module in computed_order" under one prefix, from position i on,
\* last_earliest being 0 at first.  The mark is "*" when
\* earliest < last_earliest, and only then is last_earliest assigned.
\* A module of the loop has an address, so it has an earliest address; one
\* without a displacement makes the format of avg_displacement raise
\* TypeError.
ModuleLoop(self, prefix, computed_order, i, last_earliest, leftover, lines) ==
    IF i > Len(computed_order) THEN Listing(lines, leftover, "")
    ELSE LET name == computed_order[i].mod
         IN  IF ~StartsWith(name, prefix)
             THEN ModuleLoop(self, prefix, computed_order, i + 1,
                             last_earliest, leftover, lines)
             ELSE IF name \notin leftover
             THEN Listing(lines, leftover, "KeyError")
             ELSE IF name \notin DOMAIN self.disp_map
             THEN Listing(lines, leftover \ {name}, "TypeError")
             ELSE LET displacements == self.disp_map[name]
                      avg_displacement ==
                          IntOfQuotient(SumOf(displacements),
                                        Len(displacements))
                      earliest == self.earliest[name]
                      marked == earliest < last_earliest
                      line == OrderLine("module",
                                        truncate_module_name(prefix, name),
                                        earliest,
                                        IF marked THEN "*" ELSE " ",
                                        avg_displacement)
                  IN  ModuleLoop(self, prefix, computed_order, i + 1,
                                 IF marked THEN earliest ELSE last_earliest,
                                 leftover \ {name}, Append(lines, line))

\* "for module in leftover_modules" under one prefix, the set iterating as
\* the sequence set_order.
LeftoverLoop(prefix, set_order) ==
    LET IsListed(name) == StartsWith(name, prefix)
        listed == SelectSeq(set_order, IsListed)
    IN  [k \in 1..Len(listed) |->
            OrderLine("no_suggestion", truncate_module_name(prefix, listed[k]),
                      0, "", 0)]

RECURSIVE PrefixLoop(_, _, _, _, _, _, _)
\* "for prefix in cmake_prefixes", from position k on.  set_order is the
\* order in which the modules that stay in leftover_modules iterate.
PrefixLoop(self, cmake_prefixes, k, computed_order, leftover, set_order, lines) ==
    IF k > Len(cmake_prefixes) THEN Listing(lines, leftover, "")
    ELSE LET prefix == cmake_prefixes[k]
             modules ==
                 ModuleLoop(self, prefix, computed_order, 1, 0, leftover,
                            Append(lines, OrderLine("prefix", prefix, 0, "", 0)))
             IsLeft(name) == name \in modules.leftover
         IN  IF modules.raised # "" THEN modules
             ELSE PrefixLoop(self, cmake_prefixes, k + 1, computed_order,
                             modules.leftover, set_order,
                             modules.lines
                                 \o LeftoverLoop(prefix,
                                                 SelectSeq(set_order, IsLeft))
                                 \o << OrderLine("blank", << >>, 0, "", 0) >>)

RECURSIVE LibraryLoop(_, _, _, _)
\* "for start, module in computed_order": the dict library_order, as the
\* sequence of its items, from position i on.
LibraryLoop(module_map_, computed_order, i, library_order) ==
    IF i > Len(computed_order) THEN library_order
    ELSE LET start == computed_order[i].avg
             name == computed_order[i].mod
             found == get_lib_for_module(module_map_, name)
             lib == IF found = None THEN get_cmakefiles_prefix(name) ELSE found
             at == ItemIndex(library_order, lib)
         IN  LibraryLoop(module_map_, computed_order, i + 1,
                         IF at = 0
                         THEN Append(library_order,
                                     [key |-> lib, value |-> start])
                         ELSE IF start < library_order[at].value
                         THEN [library_order EXCEPT ![at].value = start]
                         ELSE library_order)

\* The lines after "Library order (average address shown):".
LibraryLines(library_order) ==
    LET sorted == StableSortByValue(library_order)
    IN  [k \in 1..Len(sorted) |->
            OrderLine("library",
                      IF StartsWith(sorted[k].key, CMakeFilesChars)
                      THEN sorted[k].key ELSE basename(sorted[k].key),
                      sorted[k].value, "", 0)]

\* suggest_order after its loop over results, for the DeltaCollector self:
\* the lines printed and the exception that ended the call, if one did.
suggest_order(self, module_map_, set_order) ==
    LET leftover_modules == get_all_cmake_modules(module_map_)
        cmake_prefixes ==
            SortedTexts({get_cmakefiles_prefix(name) :
                            name \in leftover_modules})
        computed_order == iter_sorted(self)
        prefixes == PrefixLoop(self, cmake_prefixes, 1, computed_order,
                               leftover_modules, set_order, << >>)
    IN  IF prefixes.raised # "" THEN prefixes
        ELSE Listing(prefixes.lines
                         \o << OrderLine("library_header", << >>, 0, "", 0) >>
                         \o LibraryLines(LibraryLoop(module_map_,
                                                     computed_order, 1, << >>)),
                     prefixes.leftover, "")

(***************************************************************************)
(* SpecOrder: suggest_order.  The rows of results are read one by one,     *)
(* then the order is printed.                                              *)
(***************************************************************************)
\* The modules that rows belong to.
RowModules == {ObjX, ObjY, ObjZ, ObjSmack}

\* The rows of the bounds.  A row has a displacement only when it has an
\* original address.
Rows ==
    {row \in {RoadmapRow(a, d, t, m) :
                 a \in {None} \cup {Some(x) : x \in 1..MaxRowAddress},
                 d \in {None, Some(4)},
                 t \in {"fun", "dat"},
                 m \in {None} \cup {Some(x) : x \in RowModules}} :
        row.orig_addr = None => row.displacement = None}

\* The addresses the collector has recorded.
Recorded(self) ==
    SumOf([k \in 1..Len(self.addresses) |-> Len(self.addresses[k].value)])

InitOrder ==
    /\ pc = "read_rows"
    /\ module_map =
           ModuleMap([k \in 1..5 |-> Contribution(2 * k, 2, k)])
    /\ dc = DeltaCollector("fun")
    /\ addr = None
    /\ module = None
    /\ IdleExtract
    /\ IdleAnalyze
    /\ IdleCompare
    /\ warnings = Warnings(FALSE, FALSE)
    /\ printed = << >>

\* One turn of "for row in results".
ReadRow ==
    /\ pc = "read_rows"
    /\ Recorded(dc) < MaxRows
    /\ \E row \in Rows : dc' = read_row(dc, row)
    /\ UNCHANGED << pc, module_map, addr, module >>
    /\ UNCHANGED << operand, instruction, match, diff, returned, stack_pairs,
                    contributed, warnings, stack_symbols, iteration, printed >>

\* results has no row left: the rest of suggest_order.  The modules that
\* stay in the set leftover_modules iterate in any one order.
PrintSuggestedOrder ==
    /\ pc = "read_rows"
    /\ \E set_order \in
              Orderings(get_all_cmake_modules(module_map)
                            \ {dc.addresses[k].key :
                                  k \in 1..Len(dc.addresses)}) :
           LET out == suggest_order(dc, module_map, set_order)
           IN  /\ printed' = out.lines
               /\ pc' = IF out.raised = "" THEN "ordered" ELSE out.raised
    /\ UNCHANGED << module_map, addr, module, dc >>
    /\ UNCHANGED << operand, instruction, match, diff, returned, stack_pairs,
                    contributed, warnings, stack_symbols, iteration >>

NextOrder == ReadRow \/ PrintSuggestedOrder

SpecOrder == InitOrder /\ [][NextOrder]_vars

(***************************************************************************)
(* What the claims about text are stated with: the value of a literal,     *)
(* summed digit by digit from its last digit.                              *)
(***************************************************************************)
DigitValueTable ==
    [c \in {"0", "1", "2", "3", "4", "5", "6", "7", "8", "9",
            "a", "b", "c", "d", "e", "f"} |->
        CASE c = "0" -> 0 [] c = "1" -> 1 [] c = "2" -> 2 [] c = "3" -> 3
          [] c = "4" -> 4 [] c = "5" -> 5 [] c = "6" -> 6 [] c = "7" -> 7
          [] c = "8" -> 8 [] c = "9" -> 9 [] c = "a" -> 10 [] c = "b" -> 11
          [] c = "c" -> 12 [] c = "d" -> 13 [] c = "e" -> 14 [] c = "f" -> 15]

RECURSIVE PositionalValue(_, _)
PositionalValue(digits, base) ==
    IF digits = << >> THEN 0
    ELSE DigitValueTable[digits[Len(digits)]]
             + base * PositionalValue(SubSeq(digits, 1, Len(digits) - 1), base)

SignValue(sign) == IF sign = "-" THEN -1 ELSE 1

IsDecimalLiteral(digits) == \A k \in 1..Len(digits) : digits[k] \in DecimalChars

\* C9, as claimed: for a line that contains <ebp|esp> <+|-> <literal>, the
\* extractor returns that register and the sign applied to the value of the
\* complete literal, read as hexadecimal when it has the prefix 0x and as
\* decimal when it has none.
C9_PrefixedHexUnprefixedDecimal ==
    (pc = "extracted" /\ operand.kind = "written"
        /\ (operand.prefixed \/ IsDecimalLiteral(operand.digits)))
    => /\ match # None
       /\ match.register = operand.register
       /\ match.offset =
              SignValue(operand.sign)
                  * PositionalValue(operand.digits,
                                    IF operand.prefixed THEN 16 ELSE 10)

\* C9, amended: for a line whose first reference is <ebp|esp> <+|-> <literal>,
\* the literal being lower-case hexadecimal digits with or without the prefix
\* 0x, the extractor returns that register and the sign applied to the value
\* of the complete literal read as hexadecimal in both cases; so never the
\* value of a proper prefix of the digits.
C9_EveryLiteralIsHexadecimal ==
    (pc = "extracted" /\ operand.kind = "written")
    => /\ match # None
       /\ match.register = operand.register
       /\ match.symbol = None
       /\ match.offset =
              SignValue(operand.sign) * PositionalValue(operand.digits, 16)

\* C9, witness: an unprefixed literal of decimal digits was read as
\* hexadecimal, and a literal of the longest kind, with hexadecimal letters
\* and a bracket after it, was read whole.
C9_Witness ==
    /\ pc = "extracted"
    /\ operand.kind = "written"
    /\ ~operand.prefixed
    /\ operand.sign = "+"
    /\ operand.digits = << "1", "0", "9" >>
    /\ operand.context.trail # << >>
    /\ match # None
    /\ match.offset = 265

\* C10: rendering StackRegisterOffset(register, offset) with __str__ and
\* giving the text to extract_stack_offset_from_instruction returns the same
\* register and offset, for both registers and every offset of the range, 0
\* included; a positive offset is rendered with "+", a negative one with "-"
\* and its positive magnitude.
C10_RoundTrip ==
    (pc \in {"extract", "extracted"} /\ operand.kind = "rendered")
    => LET ref == operand.ref
           tail == IF ref.symbol = None THEN 0 ELSE 2 + Len(ref.symbol.name)
           digits == SubSeq(instruction, 9, Len(instruction) - tail)
       IN  /\ SubSeq(instruction, 1, 3) = RegisterChars(ref.register)
           /\ ref.offset > 0 => instruction[5] = "+"
           /\ ref.offset < 0 => instruction[5] = "-"
           /\ SubSeq(instruction, 7, 8) = << "0", "x" >>
           /\ \A k \in 1..Len(digits) : digits[k] \in DOMAIN DigitValueTable
           /\ PositionalValue(digits, 16)
                  = (IF ref.offset < 0 THEN -ref.offset ELSE ref.offset)
           /\ pc = "extracted"
                  => /\ match # None
                     /\ match.register = ref.register
                     /\ match.offset = ref.offset

\* C10, witness: a negative offset of three hexadecimal digits, rendered and
\* read back.
C10_Witness ==
    /\ pc = "extracted"
    /\ operand.kind = "rendered"
    /\ operand.ref.register = "esp"
    /\ operand.ref.offset = -(MaxOffset - 1)
    /\ instruction[5] = "-"
    /\ match # None
    /\ match.offset < 0

(***************************************************************************)
(* What the claims about correspondences are stated with.                  *)
(***************************************************************************)
\* A reference without its symbol.
Slot(ref) == << ref.register, ref.offset >>

PairSlots(pair) == << Slot(pair.orig), Slot(pair.recomp) >>

\* The recomp slots paired with an original slot, and the other way round.
RecompPartners(pairs, slot) ==
    {Slot(p.recomp) : p \in {q \in pairs : Slot(q.orig) = slot}}

OrigPartners(pairs, slot) ==
    {Slot(p.orig) : p \in {q \in pairs : Slot(q.recomp) = slot}}

SlotsOf(refs) == {Slot(refs[k]) : k \in 1..Len(refs)}

PrintedLines(view, kind) ==
    {printed[k] : k \in {j \in 1..Len(printed) :
                            printed[j].view = view /\ printed[j].kind = kind}}

BothViewsPrinted == pc \in {"print_footer", "done"}

\* C1: after both views are printed, the flag map-not-bijective is set
\* whenever an original reference (register, offset) is paired with two or
\* more recomp references, or a recomp reference with two or more original
\* references, and a non-bijective line lists every partner.
C1_EveryAmbiguityIsFlagged ==
    BothViewsPrinted
    => /\ \A p \in stack_pairs :
              Cardinality(RecompPartners(stack_pairs, Slot(p.orig))) >= 2
              => /\ warnings.error_map_not_bijective
                 /\ \E e \in PrintedLines("original", "non_bijective") :
                        /\ SlotsOf(e.left) = {Slot(p.orig)}
                        /\ SlotsOf(e.right)
                               = RecompPartners(stack_pairs, Slot(p.orig))
       /\ \A p \in stack_pairs :
              Cardinality(OrigPartners(stack_pairs, Slot(p.recomp))) >= 2
              => /\ warnings.error_map_not_bijective
                 /\ \E e \in PrintedLines("recomp", "non_bijective") :
                        /\ SlotsOf(e.right) = {Slot(p.recomp)}
                        /\ SlotsOf(e.left)
                               = OrigPartners(stack_pairs, Slot(p.recomp))

\* C2: after both views are printed, every ebp offset of the symbol table
\* that no pair has as its recomp reference (with register ebp) has a line
\* "not seen" in the by-recomp view, with its symbol; also when a pair has
\* an esp recomp reference of the same offset.
C2_EveryUnseenSymbolIsListed ==
    BothViewsPrinted
    => \A o \in DOMAIN stack_symbols :
           (\A p \in stack_pairs : Slot(p.recomp) # << "ebp", o >>)
           => \E e \in PrintedLines("recomp", "not_seen") :
                  e.right = << StackRegisterOffset("ebp", o, stack_symbols[o]) >>

\* C3: for a divergent region whose two sides differ in length, one of them
\* empty or not, analyze_diff returns the empty set and sets
\* structural_mismatches_present, whatever the lines are.
C3_UnequalLengthsGiveNothing ==
    (pc # "analyze" /\ diff.kind = "orig_recomp"
        /\ Len(diff.orig) # Len(diff.recomp))
    => /\ returned = {}
       /\ warnings.structural_mismatches_present

\* C3, witness: a region of two original lines and one recomp line, all with
\* a reference, went through analyze_diff.
C3_Witness ==
    /\ pc = "classify"
    /\ diff.kind = "orig_recomp"
    /\ diff.orig = << LineLocal, LineArg >>
    /\ diff.recomp = << LineLocal >>
    /\ returned = {}
    /\ warnings.structural_mismatches_present

\* C4: over the regions compare_function_stacks goes through, the flag
\* structural_mismatches_present is never reset, no region removes a pair
\* an earlier region gave, and the set of pairs is the union of the sets
\* analyze_diff returned, up to the end.
C4_FlagMonotonicAndUnionKept ==
    /\ [][/\ warnings.structural_mismatches_present
              => warnings'.structural_mismatches_present
          /\ pc = "diffs" => stack_pairs \subseteq stack_pairs']_vars
    /\ []({PairSlots(p) : p \in stack_pairs}
              = {PairSlots(p) : p \in contributed})

\* C4, witness: the run ended with the flag set by some region and the pairs
\* of two other regions kept.
C4_Witness ==
    /\ pc = "done"
    /\ warnings.structural_mismatches_present
    /\ Cardinality(stack_pairs) >= 2
    /\ Cardinality(contributed) >= 2

\* C5: in a divergent region of equal lengths, when at some position one of
\* the two lines has a reference and the other has none, whichever of the
\* two it is, structural_mismatches_present is set.
C5_OneSidedReferenceIsFlagged ==
    (pc # "analyze" /\ diff.kind = "orig_recomp"
        /\ Len(diff.orig) = Len(diff.recomp)
        /\ \E k \in 1..Len(diff.orig) :
               (extract_stack_offset_from_instruction(diff.orig[k]) = None)
                   # (extract_stack_offset_from_instruction(diff.recomp[k])
                          = None))
    => warnings.structural_mismatches_present

\* The positions of an aligned region whose two texts refer to different
\* slots.
AlignedDiffering(lines) ==
    {k \in 1..Len(lines) :
        LET o == extract_stack_offset_from_instruction(lines[k].instruction)
            r == extract_stack_offset_from_instruction(lines[k].recomp_text)
        IN  o # None /\ r # None /\ Slot(o) # Slot(r)}

\* The positions of a divergent region of equal lengths whose two lines
\* refer to different slots.
DivergentDiffering(d) ==
    {k \in 1..Len(d.orig) :
        LET o == extract_stack_offset_from_instruction(d.orig[k])
            r == extract_stack_offset_from_instruction(d.recomp[k])
        IN  o # None /\ r # None /\ Slot(o) # Slot(r)}

\* A divergent region of equal lengths in which no original reference faces
\* a line without one.
Unbroken(d) ==
    /\ Len(d.orig) = Len(d.recomp)
    /\ \A k \in 1..Len(d.orig) :
           extract_stack_offset_from_instruction(d.orig[k]) # None
           => extract_stack_offset_from_instruction(d.recomp[k]) # None

C7_EnrichmentOnlyAnnotatesEbpRecomp ==
    [][pc = "enrich"
       => /\ {PairSlots(p) : p \in stack_pairs'}
                 = {PairSlots(p) : p \in stack_pairs}
          /\ Cardinality(stack_pairs') = Cardinality(stack_pairs)
          /\ {iteration'[k] : k \in 1..Len(iteration')} = stack_pairs'
          /\ Len(iteration') = Cardinality(stack_pairs)
          /\ stack_symbols' = stack_symbols
          /\ \A p \in stack_pairs' :
                 /\ p.orig.symbol = None
                 /\ p.recomp.register = "esp" => p.recomp.symbol = None
                 /\ p.recomp.register = "ebp"
                    => p.recomp.symbol
                           = (IF p.recomp.offset \in DOMAIN stack_symbols
                              THEN stack_symbols[p.recomp.offset]
                              ELSE None)]_vars

\* C7, witness: after the loop, an ebp recomp reference has its symbol, an
\* esp recomp reference of an offset that has a symbol has none, and an ebp
\* recomp reference of an offset without a symbol has none.
C7_Witness ==
    /\ pc = "print_original"
    /\ DOMAIN stack_symbols = {8}
    /\ \E p \in stack_pairs :
           p.recomp.register = "ebp" /\ p.recomp.offset = 8
               /\ p.recomp.symbol = stack_symbols[8]
    /\ \E p \in stack_pairs :
           p.recomp.register = "esp" /\ p.recomp.offset = 8
               /\ p.recomp.symbol = None
    /\ \E p \in stack_pairs :
           p.recomp.register = "ebp" /\ p.recomp.offset = -4
               /\ p.recomp.symbol = None

\* C8: the footer ends with one of three outcomes that the two flags
\* decide: the error when error_map_not_bijective is set, whatever the other
\* flag; else the warning when structural_mismatches_present is set; else
\* neither.
C8_FooterFollowsTheFlags ==
    pc = "done"
    => LET IsFooter(e) == e.view = "footer"
           footer == SelectSeq(printed, IsFooter)
           kinds == [k \in 1..Len(footer) |-> footer[k].kind]
       IN  /\ kinds = (IF warnings.error_map_not_bijective
                       THEN << "legend", "error" >>
                       ELSE IF warnings.structural_mismatches_present
                            THEN << "legend", "warning" >>
                            ELSE << "legend" >>)
           /\ SubSeq(printed, Len(printed) - Len(footer) + 1, Len(printed))
                  = footer

\* C8, witness: both flags are set and the footer ends with the error.
C8_Witness ==
    /\ pc = "done"
    /\ warnings.error_map_not_bijective
    /\ warnings.structural_mismatches_present
    /\ printed[Len(printed)].kind = "error"

BreakPositions(d) ==
    {k \in 1..Len(d.orig) :
        /\ extract_stack_offset_from_instruction(d.orig[k]) # None
        /\ extract_stack_offset_from_instruction(d.recomp[k]) = None}

\* C12: in a divergent region of equal lengths, when at some position the
\* original line has a reference and the recomp line at that position has
\* none, analyze_diff sets structural_mismatches_present and returns the
\* empty set: the pairs at and after the break are dropped, and so are the
\* pairs found before it.
C12_BreakDiscardsTheWholeRegion ==
    (pc # "analyze" /\ diff.kind = "orig_recomp"
        /\ Len(diff.orig) = Len(diff.recomp)
        /\ BreakPositions(diff) # {})
    => /\ returned = {}
       /\ warnings.structural_mismatches_present

\* C12, witness: a region whose first line pair has a reference on both
\* sides and whose second has one on the original side alone went through
\* analyze_diff.
C12_Witness ==
    /\ pc = "classify"
    /\ diff.kind = "orig_recomp"
    /\ diff.orig = << LineLocal, LineArg >>
    /\ diff.recomp = << LineArg, LinePush >>
    /\ BreakPositions(diff) = {2}
    /\ returned = {}
    /\ warnings.structural_mismatches_present

\* C13: the by-original view has exactly one entry for every distinct
\* original reference of the set, two references being distinct when their
\* registers or their offsets differ (ebp + 8 and esp + 8 have an entry
\* each); the entry lists every recomp reference paired with that original
\* reference, and the entries are in ascending order of offset.
C13_OneEntryForEveryOriginalReference ==
    pc = "first_recomp"
    => LET entries == Tail(printed)
           origs == {Slot(p.orig) : p \in stack_pairs}
       IN  /\ printed[1].kind = "header"
           /\ Len(entries) = Cardinality(origs)
           /\ \A slot \in origs :
                  \E k \in 1..Len(entries) :
                      /\ entries[k].view = "original"
                      /\ SlotsOf(entries[k].left) = {slot}
                      /\ SlotsOf(entries[k].right)
                             = RecompPartners(stack_pairs, slot)
                      /\ Len(entries[k].right)
                             = Cardinality(RecompPartners(stack_pairs, slot))
           /\ \A j, k \in 1..Len(entries) :
                  j < k => entries[j].left[1].offset <= entries[k].left[1].offset

\* The contributions of the ModuleMap that contain an address.
Containing(self, a) ==
    {k \in 1..Len(self.section_contrib) :
        /\ self.section_contrib[k].start <= a
        /\ a < self.section_contrib[k].start + self.section_contrib[k].size}

\* C14: for a list of contributions sorted by start address and any address
\* (below the first start, equal to a start, inside a contribution, in a
\* gap or above the last start; the list empty or not), get_module returns
\* the module (lib, obj) of the contribution with
\* start <= addr < start + size when the pdb lists its module id, and None
\* otherwise; it never raises.
C14_ModuleOfTheContainingContribution ==
    pc = "got_module"
    => /\ module.outcome = "returned"
       /\ module.value =
              (IF \E k \in Containing(module_map, addr) :
                      module_map.section_contrib[k].module_id
                          \in DOMAIN module_map.module_lookup
               THEN module_map.module_lookup[
                        module_map.section_contrib[
                            CHOOSE k \in Containing(module_map, addr) : TRUE
                        ].module_id]
               ELSE None)

\* The lines of modules printed before line k under the same prefix.
ListedBefore(k) ==
    {j \in 1..(k - 1) :
        /\ printed[j].kind = "module"
        /\ \A i \in j..k : printed[i].kind # "prefix"}

\* C15: in the list of the modules of one prefix, in the order of their
\* average address, a module has the mark "*" whenever its earliest address
\* is lower than the earliest address of a module listed before it under
\* that prefix, and a blank otherwise.
C15_MarkWhenEarliestDisagrees ==
    pc \in {"ordered", "TypeError"}
    => \A k \in 1..Len(printed) :
           printed[k].kind = "module"
           => printed[k].mark =
                  (IF \E j \in ListedBefore(k) :
                          printed[k].address < printed[j].address
                   THEN "*" ELSE " ")

=============================================================================
